---------------------------- MODULE Spec2Model ----------------------------
(***************************************************************************)
(* A model of lilcom's integer stream coder, lilcom/int_stream.h:           *)
(*   UintStream / ReverseUintStream  (unsigned 32-bit integers)             *)
(*   IntStream  / ReverseIntStream   (signed wrapper, zig-zag)              *)
(*                                                                         *)
(* The encoder's fields, the decoder's fields and the bit sink/source are   *)
(* the state.  One action per public operation: Write, Flush, the decoder   *)
(* constructor and Read.  The private helpers (ComputeNumBits, WriteCode,   *)
(* FlushPendingZeros, FlushSome) are operators on an encoder record, used   *)
(* inside the actions of the operations that call them.                     *)
(*                                                                         *)
(* bit_stream.h and int_math_utils.h are not part of the sources at hand;   *)
(* BitStream, ReverseBitStream and int_math::num_bits follow their          *)
(* documented contract (LSB-first bit fields, zero padding on Flush,        *)
(* a read beyond the buffer fails).                                         *)
(***************************************************************************)
EXTENDS Integers, Sequences, FiniteSets, TLC

VARIABLES
  \* ---- UintStream
  buffer_,                \* std::vector<uint32_t> buffer_
  most_recent_num_bits_,  \* int
  started_,               \* bool
  flushed_,               \* bool
  num_pending_zeros_,     \* uint32_t
  bit_stream_,            \* BitStream: the bits written so far, in order
  code,                   \* the byte range the decoder is given (Code() after Flush)
  \* ---- ReverseUintStream
  dec,                    \* "none" before construction, "ready" after
  bit_reader_,            \* ReverseBitStream: index of the next bit to read
  prev_num_bits_,         \* int
  cur_num_bits_,          \* int
  zero_runlength_,        \* int
  \* ---- IntStream / ReverseIntStream (the signed wrappers' values)
  sgn,
  \* ---- the caller and the history of calls (not program state)
  env,                    \* what the caller may still write
  nskipped,               \* number of leading zero values written before Init
  written,                \* the values written since Init, in order
  calls,                  \* one record per WriteCode call, in order
  marks,                  \* prelude / final zero run / FlushSome bookkeeping
  reads,                  \* one record per Read call, in order
  failed_assert           \* "" or the assertion that failed (the program aborted)

vars == << buffer_, most_recent_num_bits_, started_, flushed_,
           num_pending_zeros_, bit_stream_, code, dec, bit_reader_,
           prev_num_bits_, cur_num_bits_, zero_runlength_, sgn, env,
           nskipped, written, calls, marks, reads, failed_assert >>

-----------------------------------------------------------------------------
(* Program constants.                                                      *)

\* Write(): `if (buffer_.size() >= 64)`
FlushThreshold == 64
\* Write(): `FlushSome(32)`
FlushCount == 32
\* uint32_t / int: the width of the machine integers
WordBits == 32
\* FlushSome(): `bit_stream_.Write(5, ...)`, the width of the prelude field
PreludeBits == 5
\* FlushSome(): `first_num_bits >= 31`, the prelude's escape value
PreludeEscape == 31
\* Read(): `num_zeros_read > 31`
MaxZerosRead == 31

-----------------------------------------------------------------------------
(* Bounds of the model.                                                     *)

\* values of its choice the caller writes before the filler run
MaxHead == 1
\* values of its choice the caller writes after the filler run
MaxTail == 2
\* Read calls on the code of a stream that began with a long run of zeros
MaxLongReads == 3
\* bytes of an arbitrary byte range given to the decoder
MaxBytes == 2
\* Read calls on an arbitrary byte range
MaxDecodeReads == 3
\* values in a buffer given to ComputeNumBits on its own
MaxPlanLen == 3
\* most_recent_num_bits_ given to ComputeNumBits on its own
MaxPlanRecent == 4
\* values written through IntStream
MaxSigned == 2
\* calls of a caller that does not keep to the order Write.., Flush, Code
MaxMisuseCalls == 4

\* lengths of a filler run: short ones, and ones that end around the two
\* partial flushes (at 64 and at 96 writes)
FillLens == {1, 31, 62, 63, 94}

-----------------------------------------------------------------------------
(* Machine arithmetic.  TLC's integers are exactly the 32-bit signed ints,  *)
(* so a C++ `int` is an integer of the model, and an operation that can      *)
(* leave the int range says what it does there.  A uint32_t is a record of   *)
(* its top bit and its low 31 bits: value = top * 2^31 + low.               *)

Max(a, b) == IF a >= b THEN a ELSE b

\* int_math::int_math_max on int
int_math_max(a, b) == Max(a, b)

Pow2(n) == 2 ^ n

\* INT_MAX = 2^31 - 1 and INT_MIN = -2^31
IntMax == (Pow2(WordBits - 2) - 1) + Pow2(WordBits - 2)
IntMin == (-IntMax) - 1

\* the uint32_t with top bit `top` and low 31 bits `low`
U32(top, low) == [top |-> top, low |-> low]

\* the uint32_t of a number in 0..2^31-1
U(n) == U32(0, n)

\* the largest uint32_t, 2^32 - 1
UintMax == U32(1, IntMax)

\* bit j (0..31) of a uint32_t
Bit(w, j) == IF j = WordBits - 1 THEN w.top ELSE (w.low \div Pow2(j)) % 2

\* conversion uint32_t -> int32_t (two's complement)
ToInt32(w) == IF w.top = 0 THEN w.low ELSE (w.low - IntMax) - 1

\* conversion int -> uint32_t (modulo 2^32)
ToUint32(s) == IF s >= 0 THEN U32(0, s) ELSE U32(1, (s + IntMax) + 1)

\* uint32_t + uint32_t, modulo 2^32
UAdd(a, b) ==
  LET carry == IF b.low > 0 /\ a.low >= (IntMax - b.low) + 1 THEN 1 ELSE 0
      low   == IF carry = 1 THEN (a.low - (IntMax - b.low)) - 1
                            ELSE a.low + b.low
  IN  U32((a.top + b.top + carry) % 2, low)

\* uint32_t++
UInc(w) == UAdd(w, U(1))

RECURSIVE AndLow(_, _, _, _)
\* the bits lo..hi of a & b, as a number (the two halves of the range added)
AndLow(a, b, lo, hi) ==
  IF lo > hi THEN 0
  ELSE IF lo = hi THEN Bit(a, lo) * Bit(b, lo) * Pow2(lo)
  ELSE AndLow(a, b, lo, (lo + hi) \div 2)
       + AndLow(a, b, ((lo + hi) \div 2) + 1, hi)

\* uint32_t & uint32_t
UAnd(a, b) == U32(a.top * b.top, AndLow(a, b, 0, WordBits - 2))

\* w | (1 << j)
USetBit(w, j) ==
  IF Bit(w, j) = 1 THEN w
  ELSE IF j = WordBits - 1 THEN U32(1, w.low) ELSE U32(w.top, w.low + Pow2(j))

\* w ^ (1 << j)
UXorBit(w, j) ==
  IF Bit(w, j) = 0 THEN USetBit(w, j)
  ELSE IF j = WordBits - 1 THEN U32(0, w.low) ELSE U32(w.top, w.low - Pow2(j))

\* `1 << n` on int, n in 0..31; 1 << 31 is INT_MIN
ShiftLeftOne(n) == IF n = WordBits - 1 THEN IntMin ELSE Pow2(n)

\* The outcomes of an int operation that overflows (undefined behaviour):
\* the two's complement wrap, or the value stuck at the end of the range.
UBOutcomes == {"wrap", "saturate"}

\* a - b on int, b >= 0; below INT_MIN the outcome `ub` decides
IntSub(a, b, ub) ==
  IF a >= IntMin + b THEN a - b
  ELSE IF ub = "wrap" THEN IntMax - ((b - 1) - (a - IntMin))
  ELSE IntMin

\* int_math::num_bits: position of the highest set bit plus one, 0 for 0
num_bits(w) ==
  IF w.top = 1 THEN WordBits
  ELSE IF w.low = 0 THEN 0
  ELSE CHOOSE n \in 1..(WordBits - 1) :
         /\ Pow2(n - 1) <= w.low
         /\ (n < WordBits - 1 => w.low < Pow2(n))

-----------------------------------------------------------------------------
(* BitStream / ReverseBitStream.                                            *)

\* the low n bits of a uint32_t, least significant first
BitsOf(n, w) == [j \in 1..n |-> Bit(w, j - 1)]

\* BitStream::Write(num_bits, bits)
BitStreamWrite(bits, n, w) == bits \o BitsOf(n, w)

\* BitStream::Flush(): zero padding up to a byte boundary
BitStreamFlush(bits) ==
  bits \o [j \in 1..((8 - (Len(bits) % 8)) % 8) |-> 0]

RECURSIVE ByteValue(_, _, _)
ByteValue(bits, first, j) ==
  IF j > 8 THEN 0
  ELSE bits[first + j - 1] * Pow2(j - 1) + ByteValue(bits, first, j + 1)

\* BitStream::Code(): the bytes, the first bit written being bit 0 of byte 0
BitStreamCode(bits) ==
  [b \in 1..(Len(bits) \div 8) |-> ByteValue(bits, 8 * (b - 1) + 1, 1)]

\* the bit at (0-based) position p of a byte sequence
BitAt(bytes, p) == (bytes[(p \div 8) + 1] \div Pow2(p % 8)) % 2

RECURSIVE FieldLow(_, _, _, _)
\* the bits lo..hi of the field that starts at position p, as a number (the
\* two halves of the range added)
FieldLow(bytes, p, lo, hi) ==
  IF lo > hi THEN 0
  ELSE IF lo = hi THEN BitAt(bytes, p + lo) * Pow2(lo)
  ELSE FieldLow(bytes, p, lo, (lo + hi) \div 2)
       + FieldLow(bytes, p, ((lo + hi) \div 2) + 1, hi)

\* ReverseBitStream::Read(num_bits, &out): fails, reading nothing, when the
\* buffer cannot supply num_bits more bits
BitReaderRead(bytes, p, n) ==
  IF p + n > 8 * Len(bytes)
  THEN [ok |-> FALSE, val |-> U(0), pos |-> p]
  ELSE [ok  |-> TRUE,
        val |-> U32(IF n = WordBits THEN BitAt(bytes, p + n - 1) ELSE 0,
                    FieldLow(bytes, p, 0,
                             (IF n = WordBits THEN n - 1 ELSE n) - 1)),
        pos |-> p + n]

-----------------------------------------------------------------------------
(* UintStream.  The private member functions work on a record of the        *)
(* encoder's fields:                                                        *)
(*   buffer, most_recent, started, pending, bits : the fields               *)
(*   calls, marks : the history of what was coded                           *)
(*   failed       : "" or the assertion that failed                         *)
(* A function's later statements are operators that take the record the     *)
(* earlier statements produced.                                             *)

Encoder ==
  [buffer      |-> buffer_,
   most_recent |-> most_recent_num_bits_,
   started     |-> started_,
   pending     |-> num_pending_zeros_,
   bits        |-> bit_stream_,
   calls       |-> calls,
   marks       |-> marks,
   failed      |-> failed_assert]

\* A loop of the code is evaluated as its first half followed by its second
\* half (the iterations still run in the code's order), which keeps the depth
\* of evaluation logarithmic in the number of iterations.  Each half first
\* looks at the state it starts from, so that the half before it is evaluated
\* before it is entered.

\* the first loop's iteration without `prev_num_bits - 1`: each width is the
\* value's own
ForwardStepNoDecay(buffer, i, st) ==
  [prev |-> num_bits(buffer[i]), out |-> Append(st.out, num_bits(buffer[i]))]

\* ComputeNumBits, one iteration of the first loop:
\* num_bits[i] = prev_num_bits = max(num_bits(buffer[i]), prev_num_bits - 1)
ForwardStep(buffer, i, st) ==
  [prev |-> int_math_max(num_bits(buffer[i]), st.prev - 1),
   out  |-> Append(st.out, int_math_max(num_bits(buffer[i]), st.prev - 1))]

RECURSIVE ForwardPass(_, _, _, _)
\* ComputeNumBits, the iterations first..last of the first loop
ForwardPass(buffer, first, last, st) ==
  IF Len(st.out) # first - 1 \/ first > last THEN st
  ELSE IF first = last THEN ForwardStep(buffer, first, st)
  ELSE ForwardPass(buffer, ((first + last) \div 2) + 1, last,
                   ForwardPass(buffer, first, (first + last) \div 2, st))

\* the second loop's iteration with `next_num_bits` for `next_num_bits - 1`
BackwardStepNoDecay(i, st) ==
  [next  |-> int_math_max(st.nbits[i], st.next),
   nbits |-> [st.nbits EXCEPT ![i] = int_math_max(@, st.next)]]

\* ComputeNumBits, one iteration of the second loop:
\* next_num_bits = num_bits[i] = max(num_bits[i], next_num_bits - 1)
BackwardStep(i, st) ==
  [next  |-> int_math_max(st.nbits[i], st.next - 1),
   nbits |-> [st.nbits EXCEPT ![i] = int_math_max(@, st.next - 1)]]

RECURSIVE BackwardPass(_, _, _)
\* ComputeNumBits, the iterations last, last-1, .., first of the second loop
BackwardPass(first, last, st) ==
  IF Len(st.nbits) < last \/ first > last THEN st
  ELSE IF first = last THEN BackwardStep(first, st)
  ELSE BackwardPass(first, (first + last) \div 2,
                    BackwardPass(((first + last) \div 2) + 1, last, st))

\* ComputeNumBits without its second loop
ForwardOnly(buffer, most_recent) ==
  ForwardPass(buffer, 1, Len(buffer),
              [prev |-> most_recent, out |-> << >>]).out

\* UintStream::ComputeNumBits
ComputeNumBits(buffer, most_recent) ==
  BackwardPass(1, Len(buffer),
               [next  |-> 0,
                nbits |-> ForwardPass(buffer, 1, Len(buffer),
                                      [prev |-> most_recent,
                                       out  |-> << >>]).out]).nbits

\* FlushPendingZeros: the two fields it writes, num_bits_written being
\* num_bits(num_pending_zeros_) - 1
ZeroRunCode(bits, pending, num_bits_written, ub) ==
  BitStreamWrite(
    BitStreamWrite(bits, num_bits_written + 1,
                   ToUint32(ShiftLeftOne(num_bits_written))),
    num_bits_written,
    UAnd(pending, ToUint32(IntSub(ShiftLeftOne(num_bits_written), 1, ub))))

\* FlushPendingZeros without `num_pending_zeros_ = 0`
FlushPendingZerosKeep(e, ub) ==
  IF ~(e.pending.top = 1 \/ e.pending.low >= 1)
  THEN [e EXCEPT !.failed = "FlushPendingZeros: num_pending_zeros_ >= 1"]
  ELSE [e EXCEPT !.bits = ZeroRunCode(@, e.pending, num_bits(e.pending) - 1, ub)]

\* UintStream::FlushPendingZeros
FlushPendingZeros(e, ub) ==
  IF ~(e.pending.top = 1 \/ e.pending.low >= 1)
  THEN [e EXCEPT !.failed = "FlushPendingZeros: num_pending_zeros_ >= 1"]
  ELSE [e EXCEPT !.bits = ZeroRunCode(@, e.pending, num_bits(e.pending) - 1, ub),
                 !.pending = U(0)]

\* WriteCode: the width-delta code
WriteDelta(e, delta_num_bits) ==
  IF delta_num_bits = 1
    THEN [e EXCEPT !.bits = BitStreamWrite(@, 2, U(3))]
  ELSE IF delta_num_bits = -1
    THEN [e EXCEPT !.bits = BitStreamWrite(@, 2, U(1))]
  ELSE IF delta_num_bits = 0
    THEN [e EXCEPT !.bits = BitStreamWrite(@, 1, U(0))]
  ELSE [e EXCEPT !.failed = "WriteCode: delta_num_bits == 0"]

\* the top_bit_redundant condition of WriteCode and of Read
TopBitRedundant(prev_num_bits, cur_num_bits, next_num_bits) ==
  /\ prev_num_bits <= cur_num_bits
  /\ next_num_bits <= cur_num_bits
  /\ cur_num_bits > 0

\* the value bits with the top bit always written
WriteValueKeepTop(e, top_bit_redundant, cur_num_bits, i) ==
  [e EXCEPT !.bits = BitStreamWrite(@, cur_num_bits, i)]

\* WriteCode: the value bits
WriteValue(e, top_bit_redundant, cur_num_bits, i) ==
  IF ~top_bit_redundant
    THEN [e EXCEPT !.bits = BitStreamWrite(@, cur_num_bits, i)]
  ELSE IF Bit(i, cur_num_bits - 1) = 0
    THEN [e EXCEPT !.failed = "WriteCode: (i & (1 << (cur_num_bits - 1))) != 0"]
  ELSE [e EXCEPT !.bits = BitStreamWrite(@, cur_num_bits - 1,
                                         UXorBit(i, cur_num_bits - 1))]

\* the record kept of a WriteCode call.  run: the zero run whose code the call
\* wrote first (0: none); the call's bits are those at pos0..pos3-1: the run
\* code up to pos1, the width-delta code up to pos2, the value up to pos3;
\* pend0, pend1: num_pending_zeros_ before and after the call; tbr:
\* top_bit_redundant.
Called(e, call) ==
  IF e.failed # "" THEN e
  ELSE [e EXCEPT !.calls = Append(@, [call EXCEPT !.pos3 = Len(e.bits),
                                                  !.pend1 = e.pending])]

\* WriteCode, from top_bit_redundant on
WriteCodeValue(e, call) ==
  IF e.failed # "" THEN e
  ELSE Called(WriteValue(e, TopBitRedundant(call.prev, call.cur, call.next),
                         call.cur, call.val),
              [call EXCEPT !.pos2 = Len(e.bits),
                           !.tbr = TopBitRedundant(call.prev, call.cur,
                                                   call.next)])

\* WriteCode that writes the value bits before the width-delta code
WriteCodeValueFirst(e, call) ==
  IF e.failed # "" THEN e
  ELSE IF ~(num_bits(call.val) <= call.cur)
    THEN [e EXCEPT !.failed = "WriteCode: num_bits(i) <= cur_num_bits"]
  ELSE Called(
         WriteDelta(WriteValue(e, TopBitRedundant(call.prev, call.cur,
                                                  call.next),
                               call.cur, call.val),
                    call.next - call.cur),
         [call EXCEPT !.pos1 = Len(e.bits),
                      !.pos2 = Len(WriteValue(e, TopBitRedundant(
                                                   call.prev, call.cur,
                                                   call.next),
                                              call.cur, call.val).bits),
                      !.tbr = TopBitRedundant(call.prev, call.cur,
                                              call.next)])

\* WriteCode, from `assert(num_bits(i) <= cur_num_bits)` on
WriteCodeDelta(e, call) ==
  IF e.failed # "" THEN e
  ELSE IF ~(num_bits(call.val) <= call.cur)
    THEN [e EXCEPT !.failed = "WriteCode: num_bits(i) <= cur_num_bits"]
  ELSE WriteCodeValue(WriteDelta(e, call.next - call.cur),
                      [call EXCEPT !.pos1 = Len(e.bits)])

\* WriteCode whose zero-width branch does not return: it goes on to write the
\* width-delta code
WriteCodeFallThrough(e, prev_num_bits, cur_num_bits, next_num_bits, i, ub) ==
  WriteCodeDelta(
    IF cur_num_bits = 0 THEN [e EXCEPT !.pending = UInc(@)]
    ELSE IF e.pending # U(0) THEN FlushPendingZeros(e, ub) ELSE e,
    [prev |-> prev_num_bits, cur |-> cur_num_bits,
     next |-> next_num_bits, val |-> i, run |-> U(0),
     pos0 |-> Len(e.bits), pos1 |-> 0, pos2 |-> 0, pos3 |-> 0,
     pend0 |-> e.pending, pend1 |-> U(0), tbr |-> FALSE])

\* UintStream::WriteCode
WriteCode(e, prev_num_bits, cur_num_bits, next_num_bits, i, ub) ==
  IF cur_num_bits = 0
  THEN [e EXCEPT !.pending = UInc(@),
                 !.calls = Append(@,
                    [prev |-> prev_num_bits, cur |-> cur_num_bits,
                     next |-> next_num_bits, val |-> i, run |-> U(0),
                     pos0 |-> Len(e.bits), pos1 |-> Len(e.bits),
                     pos2 |-> Len(e.bits), pos3 |-> Len(e.bits),
                     pend0 |-> e.pending, pend1 |-> UInc(e.pending),
                     tbr |-> FALSE])]
  ELSE WriteCodeDelta(
         IF e.pending # U(0) THEN FlushPendingZeros(e, ub) ELSE e,
         [prev |-> prev_num_bits, cur |-> cur_num_bits,
          next |-> next_num_bits, val |-> i, run |-> e.pending,
          pos0 |-> Len(e.bits), pos1 |-> 0, pos2 |-> 0, pos3 |-> 0,
          pend0 |-> e.pending, pend1 |-> U(0), tbr |-> FALSE])

\* FlushSome, one iteration of the loop over the values to flush (i counts
\* from 1); st: the encoder and the loop's prev_num_bits, cur_num_bits
FlushStep(nbits, i, st, ub) ==
  IF st.e.failed # "" THEN st
  ELSE [e    |-> WriteCode(st.e, st.prev, st.cur, nbits[i + 1],
                           st.e.buffer[i], ub),
        prev |-> st.cur,
        cur  |-> nbits[i + 1]]

RECURSIVE FlushLoop(_, _, _, _, _)
\* FlushSome, the iterations first..last of the loop
FlushLoop(nbits, first, last, st, ub) ==
  IF st.e.failed # "" \/ first > last THEN st
  ELSE IF first = last THEN FlushStep(nbits, first, st, ub)
  ELSE FlushLoop(nbits, ((first + last) \div 2) + 1, last,
                 FlushLoop(nbits, first, (first + last) \div 2, st, ub), ub)

\* the prelude without the escape: first_num_bits in the 5-bit field alone
PreludeCodeNoEscape(bits, first_num_bits) ==
  BitStreamWrite(bits, PreludeBits, U(first_num_bits))

\* FlushSome: the prelude's bits for first_num_bits
PreludeCode(bits, first_num_bits) ==
  IF first_num_bits >= PreludeEscape
  THEN BitStreamWrite(
         BitStreamWrite(bits, PreludeBits,
                        U(IF first_num_bits = WordBits THEN PreludeEscape
                                                       ELSE first_num_bits)),
         1, U(first_num_bits - PreludeEscape))
  ELSE BitStreamWrite(bits, PreludeBits, U(first_num_bits))

\* FlushSome: `if (!started_) { ... }`
WritePrelude(e, first_num_bits, bits) ==
  [e EXCEPT !.bits = bits, !.started = TRUE,
            !.most_recent = first_num_bits,
            !.marks.preludes = @ + 1,
            !.marks.first_num_bits = first_num_bits,
            !.marks.prelude_end = Len(bits)]

\* FlushSome that erases the flushed values and leaves most_recent_num_bits_
FlushEraseKeepRecent(e, recent, num_to_flush) ==
  IF e.failed # "" THEN e
  ELSE [e EXCEPT !.buffer = SubSeq(@, num_to_flush + 1, Len(@))]

\* FlushSome: its last two statements
FlushErase(e, recent, num_to_flush) ==
  IF e.failed # "" THEN e
  ELSE [e EXCEPT !.most_recent = recent,
                 !.buffer = SubSeq(@, num_to_flush + 1, Len(@))]

\* FlushSome, from `if (!started_)` on; nbits is num_bits
FlushCoded(e, nbits, num_to_flush, ub) ==
  FlushErase(
    FlushLoop(nbits, 1, num_to_flush,
              [e    |-> IF ~e.started
                        THEN WritePrelude([e EXCEPT !.marks.flushes = @ + 1],
                                          nbits[1],
                                          PreludeCode(e.bits, nbits[1]))
                        ELSE [e EXCEPT !.marks.flushes = @ + 1],
               prev |-> IF ~e.started THEN nbits[1] ELSE e.most_recent,
               cur  |-> nbits[1]],
              ub).e,
    nbits[num_to_flush], num_to_flush)

\* FlushSome: `if (num_to_flush == size) num_bits.push_back(num_bits.back())`
EndEffects(nbits, end_of_stream) ==
  IF end_of_stream THEN Append(nbits, nbits[Len(nbits)]) ELSE nbits

\* UintStream::FlushSome
FlushSome(e, num_to_flush, ub) ==
  IF ~(num_to_flush <= Len(e.buffer))
  THEN [e EXCEPT !.failed = "FlushSome: num_to_flush <= size"]
  ELSE IF Len(e.buffer) = 0 THEN e
  ELSE FlushCoded(e, EndEffects(ComputeNumBits(e.buffer, e.most_recent),
                                num_to_flush = Len(e.buffer)),
                  num_to_flush, ub)

-----------------------------------------------------------------------------
(* ReverseUintStream.                                                       *)

\* The values an uninitialized uint32_t may hold when it is read.
UninitOutcomes == {U(0), U(1), UintMax}

\* the result of the first half of Read(): ok (FALSE: Read returns false
\* there), src_failed (a read of the bit source failed), pos (the bit
\* reader), zrl (zero_runlength_), next (next_num_bits), run (the
\* num_zeros_in_run parsed; 0: no run code parsed), h (num_zeros_read)
NextNumBits(ok, src_failed, pos, zrl, next, run, h) ==
  [ok |-> ok, src_failed |-> src_failed, pos |-> pos, zrl |-> zrl,
   next |-> next, run |-> run, h |-> h]

\* Read(): one iteration of the `while (1)` loop that counts the zero bits
\* before a 1 bit, r being its read of one bit; st.h is num_zeros_read
UnaryBit(st, r) ==
  IF ~r.ok
    THEN [done |-> TRUE, ok |-> FALSE, src_failed |-> TRUE, pos |-> r.pos,
          h |-> st.h]
  ELSE IF st.h > MaxZerosRead
    THEN [done |-> TRUE, ok |-> FALSE, src_failed |-> FALSE, pos |-> r.pos,
          h |-> st.h]
  ELSE IF r.val = U(0)
    THEN [done |-> FALSE, ok |-> FALSE, src_failed |-> FALSE, pos |-> r.pos,
          h |-> st.h + 1]
  ELSE [done |-> TRUE, ok |-> TRUE, src_failed |-> FALSE, pos |-> r.pos,
        h |-> st.h]

\* an iteration after the loop was left does nothing
UnaryStep(bytes, st) ==
  IF st.done THEN st ELSE UnaryBit(st, BitReaderRead(bytes, st.pos, 1))

RECURSIVE ReadUnary(_, _, _, _)
\* Read(): the iterations first..last of the `while (1)` loop; the loop is
\* left by its iteration MaxZerosRead + 1 at the latest
ReadUnary(bytes, first, last, st) ==
  IF st.done \/ first > last THEN st
  ELSE IF first = last THEN UnaryStep(bytes, st)
  ELSE ReadUnary(bytes, ((first + last) \div 2) + 1, last,
                 ReadUnary(bytes, first, (first + last) \div 2, st))

\* the run parsed with `zero_runlength_ = num_zeros_in_run - 1`
RunParsedLong(rx_ok, pos, h, num_zeros_in_run, ub) ==
  NextNumBits(TRUE, ~rx_ok, pos, IntSub(num_zeros_in_run, 1, ub),
              IF num_zeros_in_run = 1 THEN 1 ELSE 0, num_zeros_in_run, h)

\* Read(): from `int num_zeros_in_run = (1 << num_zeros_read) + x` on
RunParsed(rx_ok, pos, h, num_zeros_in_run, ub) ==
  NextNumBits(TRUE, ~rx_ok, pos, IntSub(num_zeros_in_run, 2, ub),
              IF num_zeros_in_run = 1 THEN 1 ELSE 0, num_zeros_in_run, h)

\* Read(): `bit_reader_.Read(num_zeros_read, &x)`, its result not looked at:
\* x stays uninitialized when the read fails
ReadRunField(rx, h, ub, uninit) ==
  RunParsed(rx.ok, rx.pos, h,
            ToInt32(UAdd(ToUint32(ShiftLeftOne(h)),
                         IF rx.ok THEN rx.val ELSE uninit)),
            ub)

\* the branch with no read of a field after the 1 bit: x = 0
ReadRunNoField(bytes, un, zrl, ub, uninit) ==
  IF ~un.ok
  THEN NextNumBits(FALSE, un.src_failed, un.pos, zrl, 0, 0, un.h)
  ELSE ReadRunField(BitReaderRead(bytes, un.pos, 0), un.h, ub, uninit)

\* Read(): the branch that parses a zero-run code; un is ReadUnary's result
ReadRun(bytes, un, zrl, ub, uninit) ==
  IF ~un.ok
  THEN NextNumBits(FALSE, un.src_failed, un.pos, zrl, 0, 0, un.h)
  ELSE ReadRunField(BitReaderRead(bytes, un.pos, un.h), un.h, ub, uninit)

\* the width-delta code read without `if (next_num_bits > 32) return false`
ReadDelta2NoLimit(r2, cur_num_bits, zrl) ==
  IF ~r2.ok THEN NextNumBits(FALSE, TRUE, r2.pos, zrl, 0, 0, -1)
  ELSE IF r2.val # U(0)
    THEN NextNumBits(TRUE, FALSE, r2.pos, zrl, cur_num_bits + 1, 0, -1)
  ELSE NextNumBits(cur_num_bits - 1 >= 0, FALSE, r2.pos, zrl,
                   cur_num_bits - 1, 0, -1)

\* Read(): after the first bit of the width-delta code was 1; r2 is the
\* read of the second bit
ReadDelta2(r2, cur_num_bits, zrl) ==
  IF ~r2.ok THEN NextNumBits(FALSE, TRUE, r2.pos, zrl, 0, 0, -1)
  ELSE IF r2.val # U(0)
    THEN NextNumBits(cur_num_bits + 1 <= WordBits, FALSE, r2.pos, zrl,
                     cur_num_bits + 1, 0, -1)
  ELSE NextNumBits(cur_num_bits - 1 >= 0, FALSE, r2.pos, zrl,
                   cur_num_bits - 1, 0, -1)

\* Read(): the width-delta code; r1 is the read of its first bit
ReadDelta(bytes, r1, cur_num_bits, zrl) ==
  IF ~r1.ok THEN NextNumBits(FALSE, TRUE, r1.pos, zrl, 0, 0, -1)
  ELSE IF r1.val = U(0)
    THEN NextNumBits(TRUE, FALSE, r1.pos, zrl, cur_num_bits, 0, -1)
  ELSE ReadDelta2(BitReaderRead(bytes, r1.pos, 1), cur_num_bits, zrl)

\* Read(): "the following big if/else statement sets next_num_bits"
ReadNextNumBits(bytes, p, cur_num_bits, zrl, ub, uninit) ==
  IF cur_num_bits # 0
    THEN ReadDelta(bytes, BitReaderRead(bytes, p, 1), cur_num_bits, zrl)
  ELSE IF zrl >= 0
    THEN NextNumBits(TRUE, FALSE, p, zrl - 1, IF zrl = 0 THEN 1 ELSE 0, 0, -1)
  ELSE ReadRun(bytes,
               ReadUnary(bytes, 0, MaxZerosRead + 1,
                         [done |-> FALSE, ok |-> FALSE, src_failed |-> FALSE,
                          pos |-> p, h |-> 0]),
               zrl, ub, uninit)

\* Read() that assigns prev_num_bits_ and cur_num_bits_ before it reads the
\* value's bits
ReadValueAssignFirst(d, nx, tbr, rv) ==
  [ok   |-> rv.ok,
   val  |-> IF ~rv.ok THEN U(0)
            ELSE IF tbr THEN USetBit(rv.val, d.cur - 1) ELSE rv.val,
   src_failed |-> nx.src_failed \/ ~rv.ok,
   pos  |-> rv.pos,
   prev |-> d.cur,
   cur  |-> nx.next,
   zrl  |-> nx.zrl, next |-> nx.next, tbr |-> tbr, run |-> nx.run,
   h    |-> nx.h]

\* Read(): the value bits and the assignments that end it; rv is the read of
\* the value's bits
ReadValue(d, nx, tbr, rv) ==
  [ok   |-> rv.ok,
   val  |-> IF ~rv.ok THEN U(0)
            ELSE IF tbr THEN USetBit(rv.val, d.cur - 1) ELSE rv.val,
   src_failed |-> nx.src_failed \/ ~rv.ok,
   pos  |-> rv.pos,
   prev |-> IF rv.ok THEN d.cur ELSE d.prev,
   cur  |-> IF rv.ok THEN nx.next ELSE d.cur,
   zrl  |-> nx.zrl, next |-> nx.next, tbr |-> tbr, run |-> nx.run,
   h    |-> nx.h]

\* Read(): from `bool top_bit_redundant` on
ReadTop(bytes, d, nx, tbr) ==
  ReadValue(d, nx, tbr,
            BitReaderRead(bytes, nx.pos, IF tbr THEN d.cur - 1 ELSE d.cur))

\* Read(): after next_num_bits is set
ReadRest(bytes, d, nx) ==
  IF ~nx.ok
  THEN [ok |-> FALSE, val |-> U(0), src_failed |-> nx.src_failed,
        pos |-> nx.pos, prev |-> d.prev, cur |-> d.cur, zrl |-> nx.zrl,
        next |-> nx.next, tbr |-> FALSE, run |-> nx.run, h |-> nx.h]
  ELSE ReadTop(bytes, d, nx, TopBitRedundant(d.prev, d.cur, nx.next))

\* ReverseUintStream::Read.  d: the decoder's fields [pos, prev, cur, zrl].
\* The result: ok (the return value), val (*int_out), the fields after the
\* call, and what the call did (src_failed, next, tbr, run, h).
UintRead(bytes, d, ub, uninit) ==
  ReadRest(bytes, d, ReadNextNumBits(bytes, d.pos, d.cur, d.zrl, ub, uninit))

\* the decoder's fields after construction, or the assertion that failed
Constructed(failed, pos, nb) ==
  [failed |-> failed, pos |-> pos, prev |-> nb, cur |-> nb, zrl |-> -1]

\* the constructor: `if (num_bits >= 31) { ... }`; r1 reads the extra bit
ConstructExtra(nb, r1) ==
  IF ~r1.ok THEN Constructed("ReverseUintStream: ans", 0, 0)
  ELSE Constructed("", r1.pos, nb + ToInt32(r1.val))

\* the constructor, after the read r5 of the 5-bit field
ConstructPrelude(bytes, r5) ==
  IF ~r5.ok THEN Constructed("ReverseUintStream: ans", 0, 0)
  ELSE IF ToInt32(r5.val) >= PreludeEscape
    THEN ConstructExtra(ToInt32(r5.val), BitReaderRead(bytes, r5.pos, 1))
  ELSE Constructed("", r5.pos, ToInt32(r5.val))

\* ReverseUintStream::ReverseUintStream
Construct(bytes) ==
  IF ~(Len(bytes) > 0)
  THEN Constructed("ReverseUintStream: code_memory_end > code", 0, 0)
  ELSE ConstructPrelude(bytes, BitReaderRead(bytes, 0, PreludeBits))

\* ReverseBitStream::NextCode(): the index one past the last byte touched,
\* p being the index of the next bit to read
BitReaderNextCode(p) == (p + 7) \div 8

\* ReverseUintStream::NextCode
NextCode == BitReaderNextCode(bit_reader_)

-----------------------------------------------------------------------------
(* IntStream / ReverseIntStream.                                            *)

\* 2 * value on int; outside the int range the outcome `ub` decides
IntMul2(value, ub) ==
  IF value >= -Pow2(WordBits - 2) /\ value <= Pow2(WordBits - 2) - 1
    THEN 2 * value
  ELSE IF ub = "wrap"
    THEN IF value > 0 THEN ((value - Pow2(WordBits - 2)) * 2) + IntMin
                      ELSE (((value + Pow2(WordBits - 2)) * 2) + IntMax) + 1
  ELSE IF value > 0 THEN IntMax ELSE IntMin

\* -a on int; -INT_MIN is outside the int range
IntNeg(a, ub) ==
  IF a # IntMin THEN -a ELSE IF ub = "wrap" THEN IntMin ELSE IntMax

\* IntStream::Write: `value >= 0 ? 2 * value : -(2 * value) - 1`, converted to
\* the uint32_t that UintStream::Write takes
ZigZag(value, ub) ==
  IF value >= 0 THEN ToUint32(IntMul2(value, ub))
  ELSE ToUint32(IntSub(IntNeg(IntMul2(value, ub), ub), 1, ub))

\* i / 2 on uint32_t
UHalf(i) == U32(0, i.top * Pow2(WordBits - 2) + (i.low \div 2))

\* the decoding without its `- 1`
ZigZagDecodeNoOffset(i) ==
  IF i.low % 2 = 0 THEN ToInt32(UHalf(i)) ELSE -ToInt32(UHalf(i))

\* ReverseIntStream::Read:
\* `i % 2 == 0 ? (int32_t)(i/2) : -(int32_t)(i/2) - 1`
ZigZagDecode(i) ==
  IF i.low % 2 = 0 THEN ToInt32(UHalf(i)) ELSE (-ToInt32(UHalf(i))) - 1

-----------------------------------------------------------------------------
(* The caller.  It writes at most MaxHead values of its choice, then a      *)
(* filler run (one value repeated, its length from FillLens), then at most  *)
(* MaxTail values of its choice, and flushes before or after the run, never *)
(* inside it.  It then decodes the code, reading as many values as it wrote.*)
(* env.profile names what the caller draws from.                            *)

\* the values the caller draws from: widths 0, 1 and 32
Values == {U(0), U(1), UintMax}
\* the values a filler run repeats: widths 0, 3 and 32
FillValues == {U(0), U(5), UintMax}

\* the signed values written through IntStream: around 0, around +-2^30
\* (where 2 * value leaves the int range) and the ends of the range
SignedValues ==
  {0, 1, -1, 2, -2, Pow2(WordBits - 2) - 1, Pow2(WordBits - 2),
   -Pow2(WordBits - 2), (-Pow2(WordBits - 2)) - 1, IntMax, IntMin + 1, IntMin}

\* the bytes an arbitrary byte range is made of (97: the prelude of width 1,
\* then the width-delta code of +1)
ByteSamples == {0, 1, 11, 96, 97, 128, 255}

ByteRanges == UNION {[1..n -> ByteSamples] : n \in 1..MaxBytes}

\* the values of a buffer given to ComputeNumBits on its own: widths 0..3
PlanValues == {U(0), U(1), U(2), U(5)}

PlanBuffers == UNION {[1..n -> PlanValues] : n \in 1..MaxPlanLen}

\* num_pending_zeros_ after 2^31 and after 2^31 + 32 writes of 0 (each time
\* with the last 32 of them still in buffer_)
LongPendings == {U(IntMax - (FlushCount - 1)), U32(1, 0)}

CallerValues ==
  CASE env.profile = "main"    -> Values
    [] env.profile = "prelude" -> {U(0), UintMax}
    [] env.profile = "long"    -> {U(0), U(1), UintMax}
    [] env.profile = "misuse"  -> {U(0), U(1), UintMax}
    [] OTHER -> {}

CallerFillValues ==
  IF env.profile = "main" THEN FillValues
  ELSE IF env.profile = "prelude" THEN {U(0), UintMax} ELSE {}

CallerFillLens ==
  IF env.profile = "main" THEN FillLens
  ELSE IF env.profile = "prelude"
    THEN (1..WordBits)
         \cup {FlushThreshold, FlushThreshold + FlushCount, 2 * FlushThreshold}
  ELSE {}

CallerMaxHead == IF env.profile = "main" THEN MaxHead ELSE 0

CallerMaxTail == IF env.profile = "prelude" THEN 1 ELSE MaxTail

NoMarks ==
  [preludes |-> 0, first_num_bits |-> -1, prelude_end |-> 0, flushes |-> 0,
   final_run |-> U(0), final_pos0 |-> 0, final_pos1 |-> 0, plan |-> << >>]

NoSigned == [written |-> << >>, reads |-> << >>]

\* misused: "" or what the caller's last call did against the order Write..,
\* Flush, Code
Caller(profile, phase) ==
  [profile |-> profile, phase |-> phase, fill_val |-> U(0), fill_left |-> 0,
   free |-> 0, max_reads |-> 0, misused |-> ""]

\* the caller's state after it wrote v; p > 0 starts a filler run of length p
CallerAfterWrite(v, p) ==
  IF env.phase = "fill"
  THEN [env EXCEPT !.fill_left = @ - 1,
                   !.phase = IF env.fill_left = 1 THEN "tail" ELSE "fill",
                   !.free = 0]
  ELSE IF p > 0
  THEN [env EXCEPT !.fill_val = v, !.fill_left = p - 1,
                   !.phase = IF p = 1 THEN "tail" ELSE "fill", !.free = 0]
  ELSE [env EXCEPT !.free = @ + 1]

CallerMayWrite(v, p) ==
  CASE env.phase = "fill" -> v = env.fill_val /\ p = 0
    [] env.phase = "head" ->
         \/ p = 0 /\ env.free < CallerMaxHead /\ v \in CallerValues
         \/ p \in CallerFillLens /\ v \in CallerFillValues
    [] env.phase = "tail" ->
         p = 0 /\ env.free < CallerMaxTail /\ v \in CallerValues
    [] env.phase = "misuse" ->
         p = 0 /\ env.free < MaxMisuseCalls /\ v \in CallerValues
    [] OTHER -> FALSE

\* the caller flushes once, after its last write or before any; a misusing
\* caller at any time
CallerMayFlush ==
  IF env.profile = "misuse" THEN env.free < MaxMisuseCalls
  ELSE ~flushed_ /\ env.phase \in {"head", "tail", "signed"}

\* the caller's state after Flush
CallerAfterFlush ==
  IF env.profile = "misuse"
  THEN [env EXCEPT !.free = @ + 1,
                   !.misused = IF flushed_ THEN "second Flush"
                               ELSE IF buffer_ = << >>
                                 THEN "Flush with no Write"
                               ELSE ""]
  ELSE [env EXCEPT !.phase = "done",
                   !.max_reads = IF env.profile = "long"
                                 THEN MaxLongReads ELSE Len(written)]

\* UintStream's constructor
NewEncoder ==
  /\ buffer_ = << >>
  /\ most_recent_num_bits_ = 0
  /\ started_ = FALSE
  /\ flushed_ = FALSE
  /\ num_pending_zeros_ = U(0)
  /\ bit_stream_ = << >>
  /\ nskipped = U(0)
  /\ marks = NoMarks

\* no decoder yet, and nothing written, coded or read
NothingDone ==
  /\ dec = "none"
  /\ bit_reader_ = 0
  /\ prev_num_bits_ = 0
  /\ cur_num_bits_ = 0
  /\ zero_runlength_ = -1
  /\ sgn = NoSigned
  /\ written = << >>
  /\ calls = << >>
  /\ reads = << >>
  /\ failed_assert = ""

Init ==
  /\ NewEncoder
  /\ NothingDone
  /\ code = << >>
  /\ env = Caller("main", "head")

\* a stream whose first value has any width from 0 to 32
InitPrelude ==
  /\ NewEncoder
  /\ NothingDone
  /\ code = << >>
  /\ env = Caller("prelude", "head")

\* a stream written through IntStream
InitSigned ==
  /\ NewEncoder
  /\ NothingDone
  /\ code = << >>
  /\ env = Caller("signed", "signed")

\* a decoder given an arbitrary byte range
InitBytes ==
  /\ NewEncoder
  /\ NothingDone
  /\ code \in ByteRanges
  /\ env = [Caller("bytes", "done") EXCEPT !.max_reads = MaxDecodeReads]

\* an encoder whose caller may call Write, Flush and Code in any order
InitMisuse ==
  /\ NewEncoder
  /\ NothingDone
  /\ code = << >>
  /\ env = Caller("misuse", "misuse")

\* ComputeNumBits on its own: any buffer, any most_recent_num_bits_
InitPlan ==
  /\ buffer_ \in PlanBuffers
  /\ most_recent_num_bits_ \in 0..MaxPlanRecent
  /\ started_ = TRUE
  /\ flushed_ = FALSE
  /\ num_pending_zeros_ = U(0)
  /\ bit_stream_ = << >>
  /\ nskipped = U(0)
  /\ marks = NoMarks
  /\ NothingDone
  /\ code = << >>
  /\ env = Caller("plan", "plan")

\* The encoder after 2^31 or 2^31 + 32 writes of the value 0: the prelude
\* (width 0) is written, every FlushSome(32) coded 32 zero-width symbols, and
\* the last 32 zeros are still in buffer_.
InitLongRun ==
  /\ num_pending_zeros_ \in LongPendings
  /\ buffer_ = [j \in 1..FlushCount |-> U(0)]
  /\ most_recent_num_bits_ = 0
  /\ started_ = TRUE
  /\ flushed_ = FALSE
  /\ bit_stream_ = BitsOf(PreludeBits, U(0))
  /\ nskipped = UAdd(num_pending_zeros_, U(FlushCount))
  /\ marks = [NoMarks EXCEPT !.preludes = 1, !.first_num_bits = 0,
                             !.prelude_end = PreludeBits,
                             !.flushes = num_pending_zeros_.top
                                           * Pow2(WordBits - 6)
                                         + (num_pending_zeros_.low
                                              \div FlushCount)]
  /\ NothingDone
  /\ code = << >>
  /\ env = Caller("long", "tail")

\* the encoder's fields and history become those of the record e
EncoderBecomes(e) ==
  /\ buffer_' = e.buffer
  /\ most_recent_num_bits_' = e.most_recent
  /\ started_' = e.started
  /\ num_pending_zeros_' = e.pending
  /\ bit_stream_' = e.bits
  /\ calls' = e.calls
  /\ marks' = e.marks
  /\ failed_assert' = e.failed

\* Write that flushes the whole buffer at the threshold
UintWriteFlushAll(e, value, ub) ==
  IF Len(e.buffer) + 1 >= FlushThreshold
  THEN FlushSome([e EXCEPT !.buffer = Append(@, value)], Len(e.buffer) + 1, ub)
  ELSE [e EXCEPT !.buffer = Append(@, value)]

\* UintStream::Write
UintWrite(e, value, ub) ==
  IF Len(e.buffer) + 1 >= FlushThreshold
  THEN FlushSome([e EXCEPT !.buffer = Append(@, value)], FlushCount, ub)
  ELSE [e EXCEPT !.buffer = Append(@, value)]

\* Flush: `bit_stream_.Flush()`; run, pos0: the pending zero run that was
\* flushed before it and where its code starts
FlushBits(e, run, pos0) ==
  IF e.failed # "" THEN e
  ELSE [e EXCEPT !.marks.final_run = run, !.marks.final_pos0 = pos0,
                 !.marks.final_pos1 = Len(e.bits),
                 !.bits = BitStreamFlush(@)]

\* Flush: from `if (num_pending_zeros_)` on
FlushTail(e, ub) ==
  IF e.failed # "" THEN e
  ELSE FlushBits(IF e.pending # U(0) THEN FlushPendingZeros(e, ub) ELSE e,
                 e.pending, Len(e.bits))

\* UintStream::Flush, after its two assertions
UintFlush(e, ub) == FlushTail(FlushSome(e, Len(e.buffer), ub), ub)

\* UintStream::Flush; flushed is flushed_ before the call
UintFlushAsserted(e, flushed, ub) ==
  IF flushed THEN [e EXCEPT !.failed = "Flush: !flushed_"]
  ELSE IF Len(e.buffer) = 0 THEN [e EXCEPT !.failed = "Flush: !buffer_.empty()"]
  ELSE UintFlush(e, ub)

\* the encoder after Flush() returned e, and Code()
Flushed(e) ==
  /\ EncoderBecomes(e)
  /\ code' = IF e.failed = "" THEN BitStreamCode(e.bits) ELSE code

\* The int subtraction of FlushPendingZeros overflows only when
\* num_pending_zeros_ >= 2^31, which one call reaches only from within
\* FlushThreshold of it: elsewhere there is one outcome.
EncoderUB ==
  IF num_pending_zeros_.top = 1
     \/ num_pending_zeros_.low > IntMax - FlushThreshold
  THEN UBOutcomes ELSE {"wrap"}

\* IntStream::Write can leave the int range only for these values
SignedUB(value) ==
  IF value >= Pow2(WordBits - 2) \/ value <= -Pow2(WordBits - 2)
  THEN UBOutcomes ELSE {"wrap"}

\* UintStream::Write(v)
Write ==
  \E v \in CallerValues \cup CallerFillValues,
     p \in CallerFillLens \cup {0}, ub \in EncoderUB :
    /\ failed_assert = ""
    /\ ~flushed_ \/ env.profile = "misuse"
    /\ CallerMayWrite(v, p)
    /\ EncoderBecomes(UintWrite(Encoder, v, ub))
    /\ written' = Append(written, v)
    /\ env' = [CallerAfterWrite(v, p) EXCEPT
                 !.misused = IF flushed_ THEN "Write after Flush" ELSE ""]
    /\ UNCHANGED << flushed_, code, dec, bit_reader_, prev_num_bits_,
                    cur_num_bits_, zero_runlength_, sgn, nskipped, reads >>

\* IntStream::Write(value)
IntWrite ==
  \E value \in SignedValues, ub \in UBOutcomes, eub \in EncoderUB :
    /\ failed_assert = ""
    /\ ~flushed_
    /\ env.profile = "signed"
    /\ ub \in SignedUB(value)
    /\ Len(written) < MaxSigned
    /\ EncoderBecomes(UintWrite(Encoder, ZigZag(value, ub), eub))
    /\ written' = Append(written, ZigZag(value, ub))
    /\ sgn' = [sgn EXCEPT !.written =
                 Append(@, [value |-> value, u |-> ZigZag(value, ub),
                            ub |-> ub])]
    /\ UNCHANGED << flushed_, code, dec, bit_reader_, prev_num_bits_,
                    cur_num_bits_, zero_runlength_, env, nskipped, reads >>

\* UintStream::Flush(), then Code()
Flush ==
  \E ub \in EncoderUB :
    /\ failed_assert = ""
    /\ CallerMayFlush
    /\ Flushed(UintFlushAsserted(Encoder, flushed_, ub))
    /\ flushed_' = (flushed_ \/ buffer_ # << >>)
    /\ env' = CallerAfterFlush
    /\ UNCHANGED << dec, bit_reader_, prev_num_bits_, cur_num_bits_,
                    zero_runlength_, sgn, nskipped, written, reads >>

\* UintStream::Code() called on its own
Code ==
  /\ failed_assert = ""
  /\ env.profile = "misuse"
  /\ env.free < MaxMisuseCalls
  /\ failed_assert' = IF flushed_ THEN "" ELSE "Code: flushed_"
  /\ code' = IF flushed_ THEN BitStreamCode(bit_stream_) ELSE code
  /\ env' = [env EXCEPT !.free = @ + 1,
                        !.misused = IF flushed_ THEN ""
                                    ELSE "Code before Flush"]
  /\ UNCHANGED << buffer_, most_recent_num_bits_, started_, flushed_,
                  num_pending_zeros_, bit_stream_, dec, bit_reader_,
                  prev_num_bits_, cur_num_bits_, zero_runlength_, sgn,
                  nskipped, written, calls, marks, reads >>

\* ComputeNumBits applied to buffer_ and most_recent_num_bits_
Plan ==
  /\ env.profile = "plan"
  /\ marks.plan = << >>
  /\ marks' = [marks EXCEPT !.plan =
                 ComputeNumBits(buffer_, most_recent_num_bits_)]
  /\ UNCHANGED << buffer_, most_recent_num_bits_, started_, flushed_,
                  num_pending_zeros_, bit_stream_, code, dec, bit_reader_,
                  prev_num_bits_, cur_num_bits_, zero_runlength_, sgn, env,
                  nskipped, written, calls, reads, failed_assert >>

\* the decoder after its constructor returned d
DecoderConstructed(d) ==
  /\ failed_assert' = d.failed
  /\ dec' = IF d.failed = "" THEN "ready" ELSE dec
  /\ bit_reader_' = d.pos
  /\ prev_num_bits_' = d.prev
  /\ cur_num_bits_' = d.cur
  /\ zero_runlength_' = d.zrl

\* ReverseUintStream's constructor on the byte range `code`
NewDecoder ==
  /\ failed_assert = ""
  /\ dec = "none"
  /\ env.phase = "done"
  /\ DecoderConstructed(Construct(code))
  /\ UNCHANGED << buffer_, most_recent_num_bits_, started_, flushed_,
                  num_pending_zeros_, bit_stream_, code, sgn, env, nskipped,
                  written, calls, marks, reads >>

Decoder ==
  [pos |-> bit_reader_, prev |-> prev_num_bits_, cur |-> cur_num_bits_,
   zrl |-> zero_runlength_]

\* what is kept of a Read call: the fields before it and its result
ReadRecord(r) ==
  [ok |-> r.ok, val |-> r.val, src_failed |-> r.src_failed,
   prev0 |-> prev_num_bits_, cur0 |-> cur_num_bits_, zrl0 |-> zero_runlength_,
   pos0 |-> bit_reader_, pos1 |-> r.pos, prev1 |-> r.prev, cur1 |-> r.cur,
   zrl1 |-> r.zrl, next |-> r.next, tbr |-> r.tbr, run |-> r.run, h |-> r.h]

\* the decoder after Read() returned r
DecoderBecomes(r) ==
  /\ bit_reader_' = r.pos
  /\ prev_num_bits_' = r.prev
  /\ cur_num_bits_' = r.cur
  /\ zero_runlength_' = r.zrl
  /\ reads' = Append(reads, ReadRecord(r))

\* ReverseIntStream::Read after ReverseUintStream::Read returned r
SignedBecomes(r) ==
  /\ DecoderBecomes(r)
  /\ sgn' = [sgn EXCEPT !.reads =
               Append(@, [ok |-> r.ok,
                          value |-> IF r.ok THEN ZigZagDecode(r.val) ELSE 0])]

\* Read() can overflow an int, or read an uninitialized x, only in the branch
\* that parses a zero-run code: elsewhere there is one outcome.
DecoderUB ==
  IF cur_num_bits_ = 0 /\ zero_runlength_ < 0 THEN UBOutcomes ELSE {"wrap"}

DecoderUninit ==
  IF cur_num_bits_ = 0 /\ zero_runlength_ < 0 THEN UninitOutcomes ELSE {U(0)}

\* ReverseUintStream::Read
Read ==
  \E ub \in DecoderUB, uninit \in DecoderUninit :
    /\ failed_assert = ""
    /\ dec = "ready"
    /\ env.profile # "signed"
    /\ Len(reads) < env.max_reads
    /\ DecoderBecomes(UintRead(code, Decoder, ub, uninit))
    /\ UNCHANGED << buffer_, most_recent_num_bits_, started_, flushed_,
                    num_pending_zeros_, bit_stream_, code, dec, sgn, env,
                    nskipped, written, calls, marks, failed_assert >>

\* ReverseIntStream::Read
IntRead ==
  \E ub \in DecoderUB, uninit \in DecoderUninit :
    /\ failed_assert = ""
    /\ dec = "ready"
    /\ env.profile = "signed"
    /\ Len(reads) < env.max_reads
    /\ SignedBecomes(UintRead(code, Decoder, ub, uninit))
    /\ UNCHANGED << buffer_, most_recent_num_bits_, started_, flushed_,
                    num_pending_zeros_, bit_stream_, code, dec, env,
                    nskipped, written, calls, marks, failed_assert >>

Next == Write \/ Flush \/ NewDecoder \/ Read

NextSigned == IntWrite \/ Flush \/ NewDecoder \/ IntRead

NextDecode == NewDecoder \/ Read

NextPlan == Plan

NextMisuse == Write \/ Flush \/ Code

\* One stream, written by the caller's main profile, flushed and decoded.
Spec == Init /\ [][Next]_vars

\* A stream whose first width takes every value from 0 to 32.
SpecPrelude == InitPrelude /\ [][Next]_vars

\* A stream that began with 2^31 or more zeros.
SpecLongRun == InitLongRun /\ [][Next]_vars

\* A stream of signed values.
SpecZigZag == InitSigned /\ [][NextSigned]_vars

\* The decoder on an arbitrary byte range.
SpecDecode == InitBytes /\ [][NextDecode]_vars

\* ComputeNumBits on an arbitrary buffer.
SpecPlan == InitPlan /\ [][NextPlan]_vars

\* An encoder called in any order.
SpecMisuse == InitMisuse /\ [][NextMisuse]_vars

-----------------------------------------------------------------------------
(* What the history says.                                                   *)

\* the i-th value written to the stream, counting the zeros written before
\* the initial state
ValueWritten(i) ==
  IF nskipped.top = 1 \/ i <= nskipped.low THEN U(0)
  ELSE written[i - nskipped.low]

\* the Read call that returned last
LastRead == reads[Len(reads)]

\* the number of consecutive zero-width symbols that end with the i-th call
\* of WriteCode: i less the index of the last call before of width > 0
ZerosBefore(i) ==
  LET wide == {0} \cup {j \in 1..i : calls[j].cur # 0}
  IN  i - (CHOOSE m \in wide : \A j \in wide : j <= m)

\* the last Read call, up to the j-th, that parsed a zero-run code
RunStart(j) ==
  LET parsed == {m \in 1..j : /\ reads[m].cur0 = 0
                              /\ reads[m].zrl0 < 0
                              /\ reads[m].ok}
  IN  CHOOSE i \in parsed : \A m \in parsed : m <= i

\* the bits p0..p1-1 of the sink are the zero-run code of k: h = floor(log2 k)
\* zero bits, a 1 bit, the low h bits of k
RunCodeIs(p0, p1, k) ==
  /\ p1 - p0 = 2 * (num_bits(k) - 1) + 1
  /\ p1 <= Len(bit_stream_)
  /\ \A j \in 1..(num_bits(k) - 1) : bit_stream_[p0 + j] = 0
  /\ bit_stream_[p0 + num_bits(k)] = 1
  /\ \A j \in 1..(num_bits(k) - 1) :
       bit_stream_[p0 + num_bits(k) + j] = Bit(k, j - 1)

\* the bits p1..p2-1 of the sink are the width-delta code of delta: 0 for 0,
\* 1,1 for +1, 1,0 for -1
DeltaCodeIs(p1, p2, delta) ==
  CASE delta = 0  -> p2 = p1 + 1 /\ bit_stream_[p1 + 1] = 0
    [] delta = 1  -> /\ p2 = p1 + 2
                     /\ bit_stream_[p1 + 1] = 1 /\ bit_stream_[p1 + 2] = 1
    [] delta = -1 -> /\ p2 = p1 + 2
                     /\ bit_stream_[p1 + 1] = 1 /\ bit_stream_[p1 + 2] = 0
    [] OTHER -> FALSE

\* the bits p2..p3-1 of the sink are the low n bits of the value v
ValueBitsAre(p2, p3, n, v) ==
  /\ p3 = p2 + n
  /\ \A j \in 1..n : bit_stream_[p2 + j] = Bit(v, j - 1)

\* the zero-run codes the encoder wrote: where, and of which run
EncodedRuns ==
  {[pos0 |-> calls[i].pos0, pos1 |-> calls[i].pos1, k |-> calls[i].run] :
     i \in {j \in 1..Len(calls) : calls[j].run # U(0)}}
  \cup (IF flushed_ /\ marks.final_run # U(0)
        THEN {[pos0 |-> marks.final_pos0, pos1 |-> marks.final_pos1,
               k |-> marks.final_run]}
        ELSE {})

\* the exact zig-zag image of a signed value, as a uint32_t
ZigZagExact(value) ==
  IF value >= 0
  THEN U32(value \div Pow2(WordBits - 2), 2 * (value % Pow2(WordBits - 2)))
  ELSE U32((-(value + 1)) \div Pow2(WordBits - 2),
           2 * ((-(value + 1)) % Pow2(WordBits - 2)) + 1)

\* w meets the constraints of a width sequence for buffer and most_recent:
\* wide enough for each value, steps of at most 1, first width at least
\* most_recent - 1
Feasible(w, buffer, most_recent) ==
  /\ \A i \in 1..Len(buffer) : w[i] >= num_bits(buffer[i])
  /\ \A i \in 2..Len(buffer) : w[i] - w[i - 1] \in {-1, 0, 1}
  /\ w[1] >= most_recent - 1

\* the widths a candidate sequence is drawn from
CandidateWidths == 0..(MaxPlanRecent + 1)

\* what the encoder used for the i-th symbol of the stream (i from 1): the
\* WriteCode call's prev, cur, next and top_bit_redundant.  In a stream that
\* began with the zeros written before the initial state, the symbols a
\* decoder reaches within MaxLongReads reads are among them, of width 0.
EncoderSymbol(i) ==
  IF nskipped # U(0)
  THEN [prev |-> 0, cur |-> 0, next |-> 0, tbr |-> FALSE]
  ELSE [prev |-> calls[i].prev, cur |-> calls[i].cur, next |-> calls[i].next,
        tbr |-> calls[i].tbr]

\* a new encoder whose buffer_ holds all of `values`, after Flush: FlushSome
\* runs once, on the whole input
Unbuffered(values) ==
  UintFlush([buffer |-> values, most_recent |-> 0, started |-> FALSE,
             pending |-> U(0), bits |-> << >>, calls |-> << >>,
             marks |-> NoMarks, failed |-> ""],
            "wrap")

-----------------------------------------------------------------------------
(* The claims.                                                              *)

\* C1: after Write of each value, Flush, and construction of the decoder on
\* Code(), every Read returns true and the i-th Read yields the i-th value
\* written.
RoundTrip ==
  \A i \in 1..Len(reads) : reads[i].ok /\ reads[i].val = ValueWritten(i)

\* C2: where the arithmetic of IntStream::Write wraps modulo 2^32, the
\* unsigned value written for s is 2s (s >= 0) or -(2s) - 1 (s < 0), a
\* number in 0..2^32-1; two different s are written as different u; and
\* ReverseIntStream::Read returns s.
ZigZagRoundTrip ==
  \A i \in 1..Len(sgn.written) :
    sgn.written[i].ub = "wrap" =>
      /\ sgn.written[i].u = ZigZagExact(sgn.written[i].value)
      /\ sgn.written[i].u = written[i]
      /\ \A j \in 1..Len(sgn.written) :
           (sgn.written[j].ub = "wrap" /\ sgn.written[j].u = sgn.written[i].u)
             => sgn.written[j].value = sgn.written[i].value
      /\ i <= Len(sgn.reads) =>
           /\ sgn.reads[i].ok
           /\ sgn.reads[i].value = sgn.written[i].value
           /\ ZigZagDecode(sgn.written[i].u) = sgn.written[i].value

\* a decoded stream whose first value was INT_MIN, written with wrap-around
ZigZagRoundTripWitness ==
  /\ Len(sgn.reads) >= 1
  /\ sgn.written[1].value = IntMin
  /\ sgn.written[1].ub = "wrap"
  /\ sgn.written[1].u = UintMax
  /\ sgn.reads[1].value = IntMin

\* C3: the widths of consecutive symbols differ by at most 1, across the
\* boundary of a partial flush too; in every WriteCode call next_num_bits -
\* cur_num_bits is -1, 0 or 1, and the assertion delta_num_bits == 0 never
\* fails.
SlopeBound ==
  /\ failed_assert # "WriteCode: delta_num_bits == 0"
  /\ dec = "none" =>
       /\ \A i \in 1..Len(calls) :
            calls[i].next - calls[i].cur \in {-1, 0, 1}
       /\ \A i \in 2..Len(calls) :
            /\ calls[i].cur - calls[i - 1].cur \in {-1, 0, 1}
            /\ calls[i].cur = calls[i - 1].next
            /\ calls[i].prev = calls[i - 1].cur

\* a flushed stream of two or more FlushSome calls whose widths step down
\* across the first partial-flush boundary
SlopeBoundWitness ==
  /\ flushed_
  /\ marks.flushes >= 2
  /\ Len(calls) > FlushCount
  /\ calls[FlushCount].cur > 0
  /\ calls[FlushCount + 1].cur = calls[FlushCount].cur - 1

\* C4: ComputeNumBits returns a sequence that meets the constraints (wide
\* enough for each value, steps of at most 1, first width >=
\* most_recent_num_bits_ - 1), and every sequence that meets them is at least
\* as large at every index.
PlanMinimal ==
  marks.plan # << >> =>
    /\ Len(marks.plan) = Len(buffer_)
    /\ Feasible(marks.plan, buffer_, most_recent_num_bits_)
    /\ \A w \in [1..Len(buffer_) -> CandidateWidths] :
         Feasible(w, buffer_, most_recent_num_bits_) =>
           \A i \in 1..Len(buffer_) : marks.plan[i] <= w[i]

\* a plan the second loop raised: widths 1, 2, 3 for the values 0, 0, 5
PlanMinimalWitness ==
  /\ marks.plan = << 1, 2, 3 >>
  /\ most_recent_num_bits_ = 0

\* C5: no assertion about the value's width fails; in every WriteCode call
\* the value fits cur_num_bits, and where top_bit_redundant holds (the first
\* call's prev being its cur, the last call's next being its cur)
\* cur_num_bits is the value's exact width and its bit cur-1 is 1; the
\* decoder evaluates the same predicate and, where it holds, returns the
\* value written.
TBRSound ==
  /\ failed_assert # "WriteCode: num_bits(i) <= cur_num_bits"
  /\ failed_assert # "WriteCode: (i & (1 << (cur_num_bits - 1))) != 0"
  /\ (flushed_ /\ dec = "none") =>
       /\ calls[1].prev = calls[1].cur
       /\ calls[Len(calls)].next = calls[Len(calls)].cur
       /\ \A i \in 1..Len(calls) :
            /\ num_bits(calls[i].val) <= calls[i].cur
            /\ calls[i].tbr = (/\ calls[i].prev <= calls[i].cur
                               /\ calls[i].next <= calls[i].cur
                               /\ calls[i].cur > 0)
            /\ calls[i].tbr =>
                 /\ calls[i].cur = num_bits(calls[i].val)
                 /\ Bit(calls[i].val, calls[i].cur - 1) = 1
                 /\ calls[i].pos3 - calls[i].pos2 = calls[i].cur - 1
  /\ reads # << >> =>
       /\ LastRead.tbr = calls[Len(reads)].tbr
       /\ LastRead.tbr =>
            /\ LastRead.ok
            /\ LastRead.cur0 = calls[Len(reads)].cur
            /\ Bit(LastRead.val, LastRead.cur0 - 1) = 1
            /\ LastRead.val = calls[Len(reads)].val

\* a Read that set the elided top bit of the value 5
TBRSoundWitness ==
  /\ reads # << >>
  /\ LastRead.tbr
  /\ LastRead.ok
  /\ LastRead.val = U(5)
  /\ LastRead.cur0 = 3

ZeroWidthSilent ==
  dec = "none" =>
    \A i \in 1..Len(calls) :
      calls[i].cur = 0 =>
        /\ calls[i].pos3 = calls[i].pos0
        /\ calls[i].pend1 = UInc(calls[i].pend0)
        /\ i < Len(calls) => calls[i + 1].pos0 = calls[i].pos0
        /\ i = Len(calls) =>
             (IF flushed_ THEN marks.final_pos0 ELSE Len(bit_stream_))
               = calls[i].pos0

\* the second zero-width symbol of a run, coded after other bits were written
ZeroWidthSilentWitness ==
  /\ calls # << >>
  /\ calls[Len(calls)].cur = 0
  /\ calls[Len(calls)].pend1 = U(2)
  /\ calls[Len(calls)].pos0 > marks.prelude_end

\* C8: the code FlushPendingZeros writes for a run of k has 2*floor(log2 k)
\* + 1 bits: h = floor(log2 k) zero bits, a 1 bit, the low h bits of k; and
\* the decoder, parsing that code, has num_zeros_in_run = k.
ZeroRunLengthLaw ==
  /\ \A c \in EncodedRuns : RunCodeIs(c.pos0, c.pos1, c.k)
  /\ \A i \in 1..Len(reads) : \A c \in EncodedRuns :
       (reads[i].cur0 = 0 /\ reads[i].zrl0 < 0 /\ reads[i].pos0 = c.pos0) =>
         /\ reads[i].h = num_bits(c.k) - 1
         /\ c.k.top = 0
         /\ reads[i].run = c.k.low

\* C9: the prelude is written once; its first 5 bits are w[0] when w[0] < 31,
\* and 31 followed by one bit w[0] - 31 otherwise; the decoder's constructor
\* sets prev_num_bits_ = cur_num_bits_ = w[0].
PreludeLaw ==
  /\ marks.preludes = (IF started_ THEN 1 ELSE 0)
  /\ (started_ /\ calls # << >>) =>
       /\ marks.first_num_bits = calls[1].cur
       /\ marks.first_num_bits \in 0..WordBits
       /\ \A j \in 1..PreludeBits :
            bit_stream_[j] =
              ((IF marks.first_num_bits < PreludeEscape
                THEN marks.first_num_bits ELSE PreludeEscape)
                 \div Pow2(j - 1)) % 2
       /\ IF marks.first_num_bits < PreludeEscape
          THEN marks.prelude_end = PreludeBits
          ELSE /\ marks.prelude_end = PreludeBits + 1
               /\ bit_stream_[PreludeBits + 1]
                    = marks.first_num_bits - PreludeEscape
  /\ (dec = "ready" /\ reads = << >>) =>
       /\ prev_num_bits_ = marks.first_num_bits
       /\ cur_num_bits_ = marks.first_num_bits
       /\ bit_reader_ = marks.prelude_end

\* a decoder constructed on a stream of two FlushSome calls whose first
\* width is 32: the escape value with the extra bit 1
PreludeLawWitness ==
  /\ dec = "ready"
  /\ reads = << >>
  /\ marks.flushes >= 2
  /\ marks.first_num_bits = WordBits
  /\ cur_num_bits_ = WordBits

\* C10: a Read call in which a read of the bit source failed returns false.
TruncationReported ==
  \A i \in 1..Len(reads) : reads[i].src_failed => ~reads[i].ok

\* C11: each of Flush with no prior Write, Write after Flush, a second Flush
\* and Code() before Flush fails an assertion of the called operation (and so
\* changes neither buffer_ nor the bit sink).
MisuseCaught ==
  env.misused # "" =>
    /\ failed_assert # ""
    /\ flushed_ => buffer_ = << >>

\* C12 as stated: Write(5) followed by Flush writes the bits 1,1,0,0,0 (the
\* 5-bit prelude 3), 0 (the width stays), 1,0 (the low 2 bits of 5, its top
\* bit left out), which make one byte of value 0x0B.
SingleFiveIs0B ==
  (flushed_ /\ written = << U(5) >>) =>
    /\ bit_stream_ = << 1, 1, 0, 0, 0, 0, 1, 0 >>
    /\ code = << 11 >>

\* C12, amended: Write(5) followed by Flush writes the bits 1,1,0,0,0 (the
\* 5-bit prelude 3), 0 (the width stays), 1,0 (the low 2 bits of 5, its top
\* bit left out); the first bit written being bit 0 of the byte, they make
\* one byte of value 0x43.
SingleFive ==
  (flushed_ /\ written = << U(5) >>) =>
    /\ failed_assert = ""
    /\ bit_stream_ = << 1, 1, 0, 0, 0, 0, 1, 0 >>
    /\ marks.prelude_end = 5
    /\ calls[1].pos0 = 5 /\ calls[1].pos1 = 5
    /\ calls[1].pos2 = 6 /\ calls[1].pos3 = 8
    /\ calls[1].tbr
    /\ code = << 67 >>

\* the stream [5] flushed into one byte
SingleFiveWitness ==
  /\ flushed_
  /\ written = << U(5) >>
  /\ Len(code) = 1
  /\ Len(calls) = 1

\* C13 as stated: for the input [1, 0, 1] the widths are 1, 1, 1; the middle
\* symbol is coded as a width-delta code and the value bit 0, and no zero-run
\* code is written.
OneZeroOneLevel ==
  (flushed_ /\ written = << U(1), U(0), U(1) >>) =>
    /\ \A i \in 1..3 : calls[i].cur = 1
    /\ calls[2].pos2 > calls[2].pos1
    /\ calls[2].pos3 = calls[2].pos2 + 1
    /\ bit_stream_[calls[2].pos3] = 0
    /\ EncodedRuns = {}

\* C13, amended: for the input [1, 0, 1] the widths are 1, 0, 1 (the steps
\* 1 -> 0 -> 1 are within the slope bound, nothing is raised); the middle
\* symbol writes no bit of its own and is coded as a zero run of 1, whose
\* code (the bit 1) precedes the third symbol's width-delta code; the
\* decoder returns 1, 0, 1.
OneZeroOneRun ==
  (flushed_ /\ written = << U(1), U(0), U(1) >>) =>
    /\ failed_assert = ""
    /\ calls[1].cur = 1 /\ calls[2].cur = 0 /\ calls[3].cur = 1
    /\ calls[2].pos3 = calls[2].pos0
    /\ calls[3].run = U(1)
    /\ calls[3].pos1 = calls[3].pos0 + 1
    /\ bit_stream_[calls[3].pos1] = 1
    /\ EncodedRuns = {[pos0 |-> calls[3].pos0, pos1 |-> calls[3].pos1,
                       k |-> U(1)]}
    /\ \A i \in 1..Len(reads) : reads[i].ok /\ reads[i].val = written[i]
    /\ \A i \in 1..Len(reads) : reads[i].cur0 = calls[i].cur

\* the stream [1, 0, 1] flushed and read back
OneZeroOneRunWitness ==
  /\ flushed_
  /\ written = << U(1), U(0), U(1) >>
  /\ Len(reads) = 3
  /\ reads[2].run = 1

\* C14: after Flush, the width used for each symbol and the next width its
\* delta code announced (at the boundary of a partial flush too, where it
\* came from a buffer without the later input) are those of one plan over
\* the whole input; the width announced at a boundary is the width the next
\* FlushSome uses; and the bits are those of an encoder that plans over the
\* whole input at once.
LookAhead ==
  (flushed_ /\ dec = "none" /\ failed_assert = "" /\ env.profile = "main") =>
    /\ Len(calls) = Len(written)
    /\ [i \in 1..Len(calls) |-> calls[i].cur] = ComputeNumBits(written, 0)
    /\ [i \in 1..Len(calls) |-> calls[i].next]
         = SubSeq(EndEffects(ComputeNumBits(written, 0), TRUE),
                  2, Len(written) + 1)
    /\ \A i \in 1..(Len(calls) - 1) : calls[i].next = calls[i + 1].cur
    /\ bit_stream_ = Unbuffered(written).bits

\* a stream of 65 values flushed in two parts, the first part coded before
\* the 65th value (of width 32) was written: the widths rise from symbol 34
\* on, the first 33 having width 0
LookAheadWitness ==
  /\ flushed_
  /\ marks.flushes = 2
  /\ Len(written) = FlushThreshold + 1
  /\ written[FlushThreshold + 1] = UintMax
  /\ calls[FlushCount].next = 0
  /\ calls[FlushCount + 1].cur = 0
  /\ calls[FlushCount + 2].cur = 1

\* C15: on a stream the encoder produced, after i successful Reads the
\* decoder's cur_num_bits_ is the width the encoder used for symbol i and
\* its prev_num_bits_ the width of symbol i-1 (the first symbol's own width
\* for i = 0), and each Read evaluated top_bit_redundant as the encoder did
\* for that symbol.
LockStep ==
  (/\ dec = "ready"
   /\ flushed_
   /\ \A i \in 1..Len(reads) : reads[i].ok) =>
    /\ \A i \in 1..Len(reads) :
         /\ reads[i].prev0 = EncoderSymbol(i).prev
         /\ reads[i].cur0 = EncoderSymbol(i).cur
         /\ reads[i].tbr = EncoderSymbol(i).tbr
    /\ (nskipped # U(0) \/ Len(reads) < Len(calls)) =>
         /\ cur_num_bits_ = EncoderSymbol(Len(reads) + 1).cur
         /\ prev_num_bits_ = EncoderSymbol(Len(reads) + 1).prev

\* C16: a Write that leaves fewer than 64 values in the buffer appends its
\* value and writes nothing; the Write that brings the buffer to 64 values
\* codes the 32 oldest values, in input order, and removes them, the 32
\* newest staying in order, and most_recent_num_bits_ becomes the width used
\* for the last value coded.
WriteThreshold ==
  [][Len(written') = Len(written) + 1 =>
       IF Len(buffer_) + 1 < FlushThreshold
       THEN /\ buffer_' = Append(buffer_, written'[Len(written')])
            /\ bit_stream_' = bit_stream_
            /\ calls' = calls
            /\ num_pending_zeros_' = num_pending_zeros_
            /\ most_recent_num_bits_' = most_recent_num_bits_
       ELSE /\ Len(buffer_) + 1 = FlushThreshold
            /\ buffer_' = SubSeq(Append(buffer_, written'[Len(written')]),
                                 FlushCount + 1, FlushThreshold)
            /\ Len(calls') = Len(calls) + FlushCount
            /\ SubSeq(calls', 1, Len(calls)) = calls
            /\ \A j \in 1..FlushCount :
                 calls'[Len(calls) + j].val = buffer_[j]
            /\ most_recent_num_bits_' = calls'[Len(calls')].cur
            /\ failed_assert' = ""]_vars

\* the state after the 64th Write of a stream whose first value has width 31
\* (the width the prelude announced) and whose 32nd has width 32
WriteThresholdWitness ==
  /\ ~flushed_
  /\ Len(written) = FlushThreshold
  /\ Len(buffer_) = FlushCount
  /\ Len(calls) = FlushCount
  /\ marks.first_num_bits = WordBits - 1
  /\ most_recent_num_bits_ = WordBits

\* C17: the symbols are coded in input order, each one's bits following the
\* one before; for a symbol of width > 0 the bits are, in this order, the
\* zero-run code (there if and only if num_pending_zeros_ > 0 on entry), the
\* width-delta code of next_num_bits - cur_num_bits, and the value bits.
EmissionOrder ==
  (dec = "none" /\ failed_assert = "" /\ env.profile = "main") =>
    /\ \A i \in 1..Len(calls) : calls[i].val = written[i]
    /\ \A i \in 2..Len(calls) : calls[i].pos0 = calls[i - 1].pos3
    /\ calls # << >> => calls[Len(calls)].pos3 <= Len(bit_stream_)
    /\ \A i \in 1..Len(calls) :
         calls[i].cur > 0 =>
           /\ calls[i].pos0 <= calls[i].pos1
           /\ calls[i].pos1 < calls[i].pos2
           /\ calls[i].pos2 <= calls[i].pos3
           /\ (calls[i].pos1 > calls[i].pos0) = (calls[i].pend0 # U(0))
           /\ calls[i].pend0 # U(0) =>
                RunCodeIs(calls[i].pos0, calls[i].pos1, calls[i].pend0)
           /\ DeltaCodeIs(calls[i].pos1, calls[i].pos2,
                          calls[i].next - calls[i].cur)
           /\ ValueBitsAre(calls[i].pos2, calls[i].pos3,
                           IF calls[i].tbr THEN calls[i].cur - 1
                                           ELSE calls[i].cur,
                           calls[i].val)

\* a symbol coded with all three parts: a zero-run code, the width-delta
\* code of +1, and a value bit
EmissionOrderWitness ==
  \E i \in 1..Len(calls) :
    /\ calls[i].pend0 # U(0)
    /\ calls[i].pos1 > calls[i].pos0
    /\ calls[i].pos2 = calls[i].pos1 + 2
    /\ calls[i].next = calls[i].cur + 1
    /\ calls[i].pos3 > calls[i].pos2

\* C18: on any byte range and after any Read calls, prev_num_bits_ and
\* cur_num_bits_ are within 0..32; a Read whose width-delta code would raise
\* the width above 32 returns false there (it reads nothing more and leaves
\* the widths), and no Read computes a width below 0.
WidthRange ==
  /\ dec = "ready" =>
       /\ prev_num_bits_ \in 0..WordBits
       /\ cur_num_bits_ \in 0..WordBits
  /\ \A i \in 1..Len(reads) :
       /\ reads[i].next >= 0
       /\ reads[i].next > WordBits =>
            /\ ~reads[i].ok
            /\ ~reads[i].src_failed
            /\ reads[i].pos1 = reads[i].pos0 + 2
            /\ reads[i].cur1 = reads[i].cur0
            /\ reads[i].prev1 = reads[i].prev0

\* a Read at width 32 that met the width-delta code of +1
WidthRangeWitness ==
  /\ reads # << >>
  /\ LastRead.cur0 = WordBits
  /\ LastRead.next = WordBits + 1
  /\ ~LastRead.ok
  /\ cur_num_bits_ = WordBits

\* C19: a Read that enters a zero run returns false when more than 31 zero
\* bits precede the 1 bit; for every exponent h in 0..31 it accepts, with the
\* h-bit field x read, the run length it computes is the positive integer
\* 2^h + x (at least 2^h, below 2^(h+1)), and zero_runlength_ becomes that
\* number less 2, at least -1.
RunArithmetic ==
  \A i \in 1..Len(reads) :
    (reads[i].cur0 = 0 /\ reads[i].zrl0 < 0) =>
      /\ reads[i].h > MaxZerosRead => ~reads[i].ok
      /\ (reads[i].ok /\ ~reads[i].src_failed) =>
           /\ reads[i].h \in 0..MaxZerosRead
           /\ reads[i].run >= 1
           /\ num_bits(U(reads[i].run)) = reads[i].h + 1
           /\ reads[i].zrl1 = reads[i].run - 2
           /\ reads[i].zrl1 >= -1

ExactConsumption ==
  (/\ flushed_
   /\ dec = "ready"
   /\ nskipped = U(0)
   /\ Len(reads) = Len(written)
   /\ \A i \in 1..Len(reads) : reads[i].ok) =>
    /\ bit_reader_ = marks.final_pos1
    /\ 8 * Len(code) - marks.final_pos1 \in 0..7
    /\ NextCode = Len(code)

\* all the Reads of a stream of more than 64 symbols that ends with a zero
\* run were made, and the sink padded the last byte
ExactConsumptionWitness ==
  /\ flushed_
  /\ dec = "ready"
  /\ Len(written) > FlushThreshold
  /\ Len(reads) = Len(written)
  /\ \A i \in 1..Len(reads) : reads[i].ok
  /\ marks.final_run # U(0)
  /\ marks.final_pos1 % 8 # 0
  /\ bit_reader_ = marks.final_pos1
  /\ NextCode = Len(code)

\* C22: after n >= 1 Writes and no Flush the buffer holds n values (n < 64)
\* or 32 + n mod 32 values (n >= 64): between 1 and 63, and 32 after 64, 96,
\* 128, ... Writes.  So the assertion of Flush that the buffer is non-empty
\* fails only when Write was never called, and the FlushSome of a Flush that
\* returned coded at least one symbol, the ghost after the last one having
\* the last one's width.
BufferBound ==
  /\ (~flushed_ /\ failed_assert = "" /\ nskipped = U(0) /\ written # << >>) =>
       /\ Len(buffer_) \in 1..(FlushThreshold - 1)
       /\ Len(buffer_) = (IF Len(written) < FlushThreshold THEN Len(written)
                          ELSE FlushCount + (Len(written) % FlushCount))
  /\ failed_assert = "Flush: !buffer_.empty()" => written = << >>
  /\ flushed_ =>
       /\ calls # << >>
       /\ calls[Len(calls)].next = calls[Len(calls)].cur

\* 128 values were written and none flushed by the caller: the buffer holds
\* 32 of them after its third partial flush
BufferBoundWitness ==
  /\ ~flushed_
  /\ failed_assert = ""
  /\ Len(written) = 2 * FlushThreshold
  /\ marks.flushes = 3
  /\ Len(buffer_) = FlushCount

\* C23: after a Read that returned false, prev_num_bits_ and cur_num_bits_
\* have the values they had before the call, wherever in Read the failure
\* was.
FailedReadKeepsWidths ==
  \A i \in 1..Len(reads) :
    ~reads[i].ok =>
      /\ reads[i].prev1 = reads[i].prev0
      /\ reads[i].cur1 = reads[i].cur0
      /\ (i = Len(reads) =>
            /\ prev_num_bits_ = reads[i].prev0
            /\ cur_num_bits_ = reads[i].cur0)

\* the first Read that returned false did so at the value's bits, after it
\* had read a width-delta code of +1, the widths before it being different
FailedReadKeepsWidthsWitness ==
  /\ reads # << >>
  /\ \A i \in 1..(Len(reads) - 1) : reads[i].ok
  /\ ~LastRead.ok
  /\ LastRead.src_failed
  /\ LastRead.pos1 = LastRead.pos0 + 2
  /\ LastRead.next = LastRead.cur0 + 1
  /\ LastRead.prev0 # LastRead.cur0
  /\ prev_num_bits_ = LastRead.prev0
  /\ cur_num_bits_ = LastRead.cur0

=============================================================================
